---- MODULE Spec2Model ----
(***************************************************************************)
(* A model of the generational slot map of slotmap.hpp: Handle<T>,         *)
(* FreeList (circular FIFO buffer of reusable indices) and SlotMap<T>      *)
(* (flat m_data / m_generations arrays, grown by doubling).                *)
(*                                                                         *)
(* The widths of the source are scaled down so that exhaustion, growth and *)
(* the index limit are reached within a few operations:                    *)
(*   MAX_HANDLES      0xFFFFFF in the source (24-bit index field),         *)
(*   MAX_GENERATIONS  0xFF in the source (8-bit generation field),         *)
(*   FreeListDefaultCapacity  1024 in the source.                          *)
(* A bit-field of the handle holds the values 0..MAX, so storing x keeps   *)
(* x % (MAX + 1), as the 24-bit and 8-bit fields do.                       *)
(*                                                                         *)
(* Both builds are modelled.  With NDEBUG undefined an assert that fails   *)
(* aborts the program (fault = "assert").  With NDEBUG defined the asserts *)
(* and the handle checks of get/remove are compiled out; an access outside *)
(* an allocation is undefined behaviour (fault = "ub"), and a read of a    *)
(* buffer cell never written yields an indeterminate value.  A faulted     *)
(* program takes no further step.                                          *)
(*                                                                         *)
(* m_generations holds uint32_t counters, wider than the handle's          *)
(* generation field; the counter's modulus is scaled with the field (a     *)
(* multiple of the field's modulus, as 2^32 is of 2^8).                    *)
(*                                                                         *)
(* Specifications: Spec (any caller of insert/emplace/remove/get),         *)
(* SpecGrowth (a caller that only inserts), SpecScript (the readme's       *)
(* example and the burn-through loop of test.cpp), SpecFreeList (FreeList  *)
(* used on its own, as in the FreeList tests), SpecFreeListAny (the same   *)
(* with pop also called on a list without entries), SpecMove (calls and    *)
(* moves of the map), SpecThrow (a T whose constructor may throw),         *)
(* SpecLife (calls, moves and the destruction of the map), SpecCtor (any  *)
(* constructor arguments) and SpecPaged (the paged SlotMap of the          *)
(* page-allocator version of slotmap.hpp: PageArray and a SlotMap that     *)
(* grows by one page).                                                     *)
(***************************************************************************)
EXTENDS Integers, Sequences, FiniteSets, TLC

\* ---------------------------------------------------------------- bounds

\* Handle<T>::MAX_HANDLES, scaled (largest value of the index field; the
\* null handle's index).
MAX_HANDLES == 7
\* Handle<T>::MAX_GENERATIONS, scaled (largest value of the generation
\* field; marks an exhausted slot).
MAX_GENERATIONS == 2
\* FreeList's default initial_capacity, scaled; SlotMap's m_freelist member
\* is default-constructed, so it always starts with this capacity.
FreeListDefaultCapacity == 2
\* Largest initial_capacity handed to the SlotMap constructor.
MaxInitialCapacity == 2
\* Number of API calls made on one map.
MaxOps == 7

SLOTMAP_RESIZE_MULTIPLIER == 2

\* The modulus of a uint32_t generation counter, scaled: ++m_generations[i]
\* wraps to 0 here.
GenerationCounterModulus == 2 * (MAX_GENERATIONS + 1)

\* The payloads stored.  The map never inspects a value, so two distinct
\* ones are enough to tell one stored object from another.
Values == {1, 2}

\* ---------------------------------------------------------------- markers

\* A buffer cell that malloc/realloc returned and nothing has written yet.
UNINIT == -1
\* Raw storage of m_data that holds no constructed object.
NoObject == 0
\* nullptr as the result of get.
Nullptr == -1

VARIABLES
    NDEBUG,                  \* TRUE: the build defines NDEBUG
    m_handle_count,          \* SlotMap::m_handle_count
    m_minimum_queue_handles, \* SlotMap::m_minimum_queue_handles
    m_data,                  \* SlotMap::m_data, index -> value or NoObject
    m_generations,           \* SlotMap::m_generations, index -> uint32
    m_freelist,              \* SlotMap::m_freelist, a FreeList record
    m_dead_indices,          \* SlotMap::m_dead_indices
    m_pages,                 \* paged SlotMap::m_pages, a PageArray record
    mallocs,                 \* the buffers malloc'ed for the map the caller
                             \* holds and for the maps it was moved from or
                             \* assigned over: who holds them, which are freed
    fault,                   \* "none", "assert" or "ub"
    issued,                  \* handles returned by insert/emplace so far
    stored,                  \* live handle -> the value it was issued for
    removed,                 \* handles removed while they were live
    misuse,                  \* remove has been called on a handle not live
    last,                    \* the last call and its outcome
    ops,                     \* calls made so far
    initialCapacity,         \* the constructor's first argument
    sinceRemoval,            \* slot whose object was removed and that was
                             \* not issued since -> indices issued since
    script,                  \* the caller: "calls" (any API call), "growth",
                             \* "readme", "burn" or "freelist"
    pushed,                  \* FreeList on its own: the values pushed so far
    popped                   \* FreeList on its own: the values pop returned

vars == <<NDEBUG, m_handle_count, m_minimum_queue_handles, m_data,
          m_generations, m_freelist, m_dead_indices, m_pages, mallocs, fault,
          issued,
          stored, removed, misuse, last, ops, initialCapacity,
          sinceRemoval, script, pushed, popped>>

mapVars == <<m_handle_count, m_data, m_generations, m_freelist,
             m_dead_indices>>

\* ---------------------------------------------------------------- Handle

Handle(index, generation) ==
    [m_index |-> index % (MAX_HANDLES + 1),
     m_generation |-> generation % (MAX_GENERATIONS + 1)]

\* Handle(): the default member initialisers.
NullHandle == [m_index |-> MAX_HANDLES, m_generation |-> MAX_GENERATIONS]

\* The 32-bit word operator== compares: index in the low bits, generation
\* above them.
PackedBits(h) == h.m_index + (MAX_HANDLES + 1) * h.m_generation

HandleEq(a, b) == PackedBits(a) = PackedBits(b)

isValid(h) == h.m_index < MAX_HANDLES /\ h.m_generation < MAX_GENERATIONS

\* The asserts of the private constructor, on the stored fields.
HandleCtorAsserts(h) ==
    h.m_index < MAX_HANDLES /\ h.m_generation < MAX_GENERATIONS

\* ---------------------------------------------------------------- FreeList

\* FreeList(initial_capacity): malloc'ed buffer, head = tail = 0.
FreeList_new(initial_capacity) ==
    [m_buffer |-> [i \in 1..initial_capacity |-> UNINIT],
     m_capacity |-> initial_capacity,
     m_head |-> 0,
     m_tail |-> 0]

\* realloc to new_capacity cells: the old cells are kept, the new ones are
\* not initialised.
Realloc(buffer, new_capacity) ==
    [i \in 1..new_capacity |-> IF i <= Len(buffer) THEN buffer[i] ELSE UNINIT]

FreeList_empty(fl) == fl.m_head = fl.m_tail

FreeList_size(fl) ==
    IF fl.m_tail < fl.m_head
    THEN fl.m_tail + fl.m_capacity - fl.m_head
    ELSE fl.m_tail - fl.m_head

\* A grow step whose wrapped branch sets m_tail = m_head + old_size, old_size
\* being the old capacity as in the code's variable of that name.
FreeList_grow_WholeSize(fl) ==
    IF fl.m_head = 0
    THEN IF fl.m_tail = fl.m_capacity
         THEN [fl EXCEPT
                 !.m_capacity = @ * SLOTMAP_RESIZE_MULTIPLIER,
                 !.m_buffer = Realloc(@, fl.m_capacity * SLOTMAP_RESIZE_MULTIPLIER)]
         ELSE fl
    ELSE IF fl.m_tail = fl.m_head - 1
         THEN LET old_size == fl.m_capacity
                  new_cap  == old_size * SLOTMAP_RESIZE_MULTIPLIER
                  buf      == Realloc(fl.m_buffer, new_cap)
                  moved    == [i \in 1..new_cap |->
                                 IF i - 1 >= old_size /\ i - 1 < old_size + fl.m_tail
                                 THEN buf[i - old_size]
                                 ELSE buf[i]]
              IN  [m_buffer |-> moved,
                   m_capacity |-> new_cap,
                   m_head |-> fl.m_head,
                   m_tail |-> fl.m_head + old_size]
         ELSE fl

\* The grow step at the start of push.
FreeList_grow(fl) ==
    IF fl.m_head = 0
    THEN IF fl.m_tail = fl.m_capacity
         THEN [fl EXCEPT
                 !.m_capacity = @ * SLOTMAP_RESIZE_MULTIPLIER,
                 !.m_buffer = Realloc(@, fl.m_capacity * SLOTMAP_RESIZE_MULTIPLIER)]
         ELSE fl
    ELSE IF fl.m_tail = fl.m_head - 1
         THEN LET old_size == fl.m_capacity
                  new_cap  == old_size * SLOTMAP_RESIZE_MULTIPLIER
                  buf      == Realloc(fl.m_buffer, new_cap)
                  \* memcpy(&m_buffer[old_size], m_buffer, m_tail cells)
                  moved    == [i \in 1..new_cap |->
                                 IF i - 1 >= old_size /\ i - 1 < old_size + fl.m_tail
                                 THEN buf[i - old_size]
                                 ELSE buf[i]]
              IN  [m_buffer |-> moved,
                   m_capacity |-> new_cap,
                   m_head |-> fl.m_head,
                   m_tail |-> fl.m_head + old_size - 1]
         ELSE fl

\* The grow branch push takes on fl: "simple" (head at 0, realloc only),
\* "wrapped" (realloc and memcpy of the wrapped entries) or "" (none).
GrowBranch(fl) ==
    IF fl.m_head = 0
    THEN (IF fl.m_tail = fl.m_capacity THEN "simple" ELSE "")
    ELSE (IF fl.m_tail = fl.m_head - 1 THEN "wrapped" ELSE "")

FreeList_push(fl, index) ==
    LET grown   == FreeList_grow(fl)
        wrapped == IF grown.m_tail = grown.m_capacity
                   THEN [grown EXCEPT !.m_tail = 0]
                   ELSE grown
    IN  [wrapped EXCEPT !.m_buffer[wrapped.m_tail + 1] = index,
                        !.m_tail = @ + 1]

\* pop: the value read, the list afterwards, and how the call ends.
\*   "assert": assert(!empty()) failed (NDEBUG undefined);
\*   wasEmpty: empty() held when pop was entered.
\* Reading a cell that was never written yields an indeterminate value:
\* garbage stands for whatever the cell happens to hold.
FreeList_pop(fl, ndebug, garbage) ==
    LET wasEmpty == FreeList_empty(fl)
        cell     == fl.m_buffer[fl.m_head + 1]
        ret      == IF cell = UNINIT THEN garbage ELSE cell
        head1    == fl.m_head + 1
        after    == IF head1 >= fl.m_capacity
                    THEN [fl EXCEPT !.m_head = 0,
                                    !.m_tail = IF fl.m_tail >= fl.m_capacity
                                               THEN 0 ELSE @]
                    ELSE [fl EXCEPT !.m_head = head1]
    IN  IF wasEmpty /\ ~ndebug
        THEN [trap |-> "assert", ret |-> UNINIT, list |-> fl, wasEmpty |-> TRUE]
        ELSE [trap |-> "none", ret |-> ret, list |-> after, wasEmpty |-> wasEmpty]

\* for (i = lo; i < hi; ++i) list.push(i)
RECURSIVE PushRange(_, _, _)
PushRange(fl, lo, hi) ==
    IF lo >= hi THEN fl ELSE PushRange(FreeList_push(fl, lo), lo + 1, hi)

\* The indices queued between head and tail, oldest first.
RECURSIVE Walk(_, _, _)
Walk(fl, pos, n) ==
    IF n = 0 THEN <<>>
    ELSE <<fl.m_buffer[pos + 1]>> \o Walk(fl, (pos + 1) % fl.m_capacity, n - 1)

FreeListContent(fl) == Walk(fl, fl.m_head, FreeList_size(fl))

\* -------------------------------------------------------------- PageArray

\* enum class PowerOfTwo, scaled: the exponents a page size is chosen from.
MaxPagePower == 2

PowerOfTwo == 1..MaxPagePower

\* asNumber(power): 1 << power
asNumber(power) == 2 ^ power

\* The default member initialisers of PageArray: no tables, no pages. The
\* flat SlotMap has no such member and keeps this value.
NoPages ==
    [m_item_pages |-> << >>, m_generation_pages |-> << >>,
     m_items_in_page |-> 0, m_allocated_page_count |-> 0,
     m_held_page_count |-> 0]

\* ------------------------------------------------------------------ heap
\* Buffers are numbered in the order malloc returns them; realloc keeps a
\* buffer's number.  made: buffers allocated so far; held: the buffers a
\* pointer member of an object still refers to; lost: buffers no pointer
\* refers to any more and that were not freed; freed: buffers passed to
\* free.  An object that was moved from holds nullptr in every pointer
\* member, so 'held' is what the caller's current map holds.

\* m_data, m_generations and m_freelist.m_buffer.
SlotMapBuffers == 3

Heap_new(n) == [made |-> n, held |-> 1..n, lost |-> {}, freed |-> {}]

\* ---------------------------------------------------------------- SlotMap

\* Handles returned and not yet passed to remove.
live == DOMAIN stored

capacity == m_handle_count

validCount ==
    capacity - FreeList_size(m_freelist) - m_dead_indices

\* needNewHandles with the comparison "at most" in place of "less than".
needNewHandles_AtMost ==
    FreeList_size(m_freelist) <= m_minimum_queue_handles

needNewHandles ==
    FreeList_size(m_freelist) < m_minimum_queue_handles

\* SlotMap(initial_capacity, minimum_available_handles): the configurations
\* that pass the constructor's two asserts.
Configs ==
    {c \in [initial_capacity : 1..MaxInitialCapacity,
            minimum_available_handles : 0..MaxInitialCapacity] :
        c.initial_capacity > c.minimum_available_handles}

NoCall ==
    [op |-> "none", h |-> NullHandle, v |-> NoObject, ret |-> Nullptr,
     at |-> "", popEmpty |-> FALSE, grew |-> FALSE, fresh |-> FALSE,
     dtors |-> 0]

\* The map right after SlotMap(C, M), its m_freelist member built with
\* FreeList(flcap), and no call made yet.
Constructed(C, M, flcap) ==
    /\ m_handle_count = C
    /\ m_minimum_queue_handles = M
    /\ m_data = [i \in 0..(C - 1) |-> NoObject]
    /\ m_generations = [i \in 0..(C - 1) |-> 0]
    /\ m_freelist = PushRange(FreeList_new(flcap), 0, C)
    /\ m_dead_indices = 0
    /\ m_pages = NoPages
    /\ mallocs = Heap_new(SlotMapBuffers)
    /\ fault = "none"
    /\ issued = {}
    /\ stored = << >>
    /\ removed = {}
    /\ misuse = FALSE
    /\ last = NoCall
    /\ ops = 0
    /\ initialCapacity = C
    /\ sinceRemoval = << >>
    /\ pushed = << >>
    /\ popped = << >>

Init ==
    /\ NDEBUG \in BOOLEAN
    /\ script = "calls"
    /\ \E c \in Configs :
         Constructed(c.initial_capacity, c.minimum_available_handles,
                     FreeListDefaultCapacity)

\* resize(): both arrays doubled, the new generations zeroed, the new
\* indices pushed in ascending order.
ResizedCount == m_handle_count * SLOTMAP_RESIZE_MULTIPLIER

ResizedData ==
    [i \in 0..(ResizedCount - 1) |->
        IF i < m_handle_count THEN m_data[i] ELSE NoObject]

ResizedGenerations ==
    [i \in 0..(ResizedCount - 1) |->
        IF i < m_handle_count THEN m_generations[i] ELSE 0]

ResizedFreeList == PushRange(m_freelist, m_handle_count, ResizedCount)

\* insert(item) / emplace(args...): the two differ only in how T is
\* constructed in the slot.
\* The outcome of the call: where it stops (trap, at) or the new map state
\* and the handle returned.
InsertOutcome(v, garbage, stray) ==
    LET need   == needNewHandles
        count1 == IF need THEN ResizedCount ELSE m_handle_count
        data1  == IF need THEN ResizedData ELSE m_data
        gens1  == IF need THEN ResizedGenerations ELSE m_generations
        fl1    == IF need THEN ResizedFreeList ELSE m_freelist
        p      == FreeList_pop(fl1, NDEBUG, garbage)
        index  == p.ret
        h      == Handle(index, gens1[index])
        stop(trap, at) ==
            [trap |-> trap, at |-> at, count |-> m_handle_count,
             data |-> m_data, gens |-> m_generations, fl |-> m_freelist,
             h |-> NullHandle, index |-> Nullptr, popEmpty |-> FALSE,
             grew |-> need]
    IN  IF need /\ ~NDEBUG /\ ~(count1 <= MAX_HANDLES)
        THEN stop("assert", "resize")
        ELSE IF p.trap # "none"
        THEN [stop(p.trap, "pop") EXCEPT !.popEmpty = p.wasEmpty]
        ELSE IF ~(index < count1)
        THEN IF NDEBUG
             THEN [stop("ub", "index") EXCEPT !.h = Handle(index, stray)]
             ELSE stop("assert", "index")
        ELSE IF ~NDEBUG /\ ~HandleCtorAsserts(h)
        THEN stop("assert", "handle")
        ELSE [trap |-> "none", at |-> "", count |-> count1,
              data |-> [data1 EXCEPT ![index] = v], gens |-> gens1,
              fl |-> p.list, h |-> h, index |-> index,
              popEmpty |-> p.wasEmpty, grew |-> need]

\* What an indeterminate 32-bit cell can hold, as far as the map can tell
\* the values apart: each index of the handle's range, MAX_HANDLES standing
\* for every larger value.
Garbage == 0..MAX_HANDLES

\* What the read of m_generations[index] can deliver when index lies
\* outside the array, as far as the handle's generation field can tell.
Stray == 0..MAX_GENERATIONS

InsertCall(op, v) ==
    /\ fault = "none"
    /\ \E garbage \in Garbage, stray \in Stray :
       \E o \in {InsertOutcome(v, garbage, stray)} :
         /\ fault' = o.trap
         /\ m_handle_count' = o.count
         /\ m_data' = o.data
         /\ m_generations' = o.gens
         /\ m_freelist' = o.fl
         /\ last' = [op |-> op, h |-> o.h, v |-> v,
                     ret |-> o.index,
                     at |-> o.at, popEmpty |-> o.popEmpty, grew |-> o.grew,
                     fresh |-> o.trap = "none" /\
                               \A x \in issued : ~HandleEq(o.h, x),
                     dtors |-> 0]
         /\ IF o.trap = "none"
            THEN /\ issued' = issued \cup {o.h}
                 /\ stored' = [x \in live \cup {o.h} |->
                                 IF x = o.h THEN v ELSE stored[x]]
                 /\ sinceRemoval' =
                        [j \in DOMAIN sinceRemoval \ {o.index} |->
                            sinceRemoval[j] + 1]
            ELSE UNCHANGED <<issued, stored, sinceRemoval>>
    /\ ops' = ops + 1
    /\ UNCHANGED <<NDEBUG, mallocs, m_pages, m_minimum_queue_handles, m_dead_indices, removed,
                   misuse, initialCapacity, script, pushed, popped>>

Insert == ops < MaxOps /\ \E v \in Values : InsertCall("insert", v)

Emplace == ops < MaxOps /\ \E v \in Values : InsertCall("emplace", v)

\* The '#ifndef NDEBUG' guard at the top of get and remove.
HandleRejected(h) ==
    ~NDEBUG /\ (~isValid(h) \/ h.m_index > m_handle_count)

\* remove(handle)
RemoveOutcome(h) ==
    LET index == h.m_index
        gen   == (m_generations[index] + 1) % GenerationCounterModulus
        same  == [trap |-> "none", at |-> "rejected", data |-> m_data,
                  gens |-> m_generations, fl |-> m_freelist,
                  dead |-> m_dead_indices, dtors |-> 0]
    IN  IF HandleRejected(h)
        THEN same
        ELSE IF ~(index < m_handle_count)
        THEN [same EXCEPT !.trap = "ub", !.at = "index"]
        ELSE [trap |-> "none", at |-> "",
              data |-> [m_data EXCEPT ![index] = NoObject],
              gens |-> [m_generations EXCEPT ![index] = gen],
              fl |-> IF gen < MAX_GENERATIONS
                     THEN FreeList_push(m_freelist, index)
                     ELSE m_freelist,
              dead |-> IF gen < MAX_GENERATIONS
                       THEN m_dead_indices
                       ELSE m_dead_indices + 1,
              dtors |-> 1]

\* The handles a caller passes to get and remove: every handle the map
\* has returned, the null handle, and well-formed handles of a larger map
\* whose index is capacity() or capacity() + 1.
ProbeHandles ==
    issued \cup {NullHandle} \cup
    {[m_index |-> i, m_generation |-> 0] :
        i \in {m_handle_count, m_handle_count + 1} \cap 0..(MAX_HANDLES - 1)}

RemoveCall(h) ==
    /\ fault = "none"
    /\ \E o \in {RemoveOutcome(h)} :
           /\ fault' = o.trap
           /\ m_data' = o.data
           /\ m_generations' = o.gens
           /\ m_freelist' = o.fl
           /\ m_dead_indices' = o.dead
           /\ last' = [NoCall EXCEPT !.op = "remove", !.h = h, !.at = o.at,
                                     !.dtors = o.dtors]
           /\ IF h \in live
              THEN /\ stored' = [x \in live \ {h} |-> stored[x]]
                   /\ removed' = removed \cup {h}
                   /\ UNCHANGED misuse
              ELSE /\ misuse' = TRUE
                   /\ UNCHANGED <<stored, removed>>
           /\ IF h \in live /\ o.dtors = 1
              THEN sinceRemoval' =
                      [j \in DOMAIN sinceRemoval \cup {h.m_index} |->
                          IF j = h.m_index THEN 0 ELSE sinceRemoval[j]]
              ELSE UNCHANGED sinceRemoval
    /\ ops' = ops + 1
    /\ UNCHANGED <<NDEBUG, mallocs, m_pages, m_handle_count, m_minimum_queue_handles, issued,
                   initialCapacity, script, pushed, popped>>

Remove == ops < MaxOps /\ \E h \in ProbeHandles : RemoveCall(h)

\* get(handle): the slot whose address is returned, or Nullptr.
GetOutcome(h) ==
    LET index == h.m_index IN
    IF HandleRejected(h)
    THEN [trap |-> "none", ret |-> Nullptr]
    ELSE IF ~(index < m_handle_count)
    THEN [trap |-> "ub", ret |-> Nullptr]
    ELSE IF h.m_generation = m_generations[index]
    THEN [trap |-> "none", ret |-> index]
    ELSE [trap |-> "none", ret |-> Nullptr]

\* A get that counts the handles it turns down in m_dead_indices.
GetCall_Counting(h) ==
    /\ fault = "none"
    /\ \E o \in {GetOutcome(h)} :
           /\ fault' = o.trap
           /\ last' = [NoCall EXCEPT !.op = "get", !.h = h, !.ret = o.ret,
                          !.v = IF o.ret = Nullptr THEN NoObject
                                ELSE m_data[o.ret]]
           /\ m_dead_indices' = IF o.ret = Nullptr THEN m_dead_indices + 1
                                ELSE m_dead_indices
    /\ ops' = ops + 1
    /\ UNCHANGED <<NDEBUG, mallocs, m_pages, m_handle_count, m_minimum_queue_handles, m_data,
                   m_generations, m_freelist, issued, stored,
                   removed, misuse, initialCapacity, sinceRemoval, script,
                   pushed, popped>>

GetCall(h) ==
    /\ fault = "none"
    /\ \E o \in {GetOutcome(h)} :
           /\ fault' = o.trap
           /\ last' = [NoCall EXCEPT !.op = "get", !.h = h, !.ret = o.ret,
                          !.v = IF o.ret = Nullptr THEN NoObject
                                ELSE m_data[o.ret]]
    /\ ops' = ops + 1
    /\ UNCHANGED <<NDEBUG, mallocs, m_pages, m_handle_count, m_minimum_queue_handles, m_data,
                   m_generations, m_freelist, m_dead_indices, issued, stored,
                   removed, misuse, initialCapacity, sinceRemoval, script,
                   pushed, popped>>

Get == ops < MaxOps /\ \E h \in ProbeHandles : GetCall(h)

Next == Insert \/ Emplace \/ Remove \/ Get

Spec == Init /\ [][Next]_vars

\* ------------------------------------------------- insertion-only runs

\* Largest initial capacity of the insertion-only runs.
MaxGrowthCapacity == 3

GrowthConfigs ==
    {c \in [initial_capacity : 1..MaxGrowthCapacity,
            minimum_available_handles : 0..MaxGrowthCapacity] :
        c.initial_capacity > c.minimum_available_handles}

InitGrowth ==
    /\ NDEBUG \in BOOLEAN
    /\ script = "growth"
    /\ \E c \in GrowthConfigs :
         Constructed(c.initial_capacity, c.minimum_available_handles,
                     FreeListDefaultCapacity)

\* A fresh map that only receives insertions.
NextGrowth == Insert \/ Emplace

SpecGrowth == InitGrowth /\ [][NextGrowth]_vars

\* ------------------------------------------------------- scripted callers

\* Largest initial capacity of the burn-through test's map.
MaxBurnCapacity == 3

\* SlotMap<Struct> map; of the readme: initial_capacity is the free list's
\* default capacity (1024 both), the minimum available a smaller positive
\* number (256).
DefaultConfigs ==
    {c \in [initial_capacity : {FreeListDefaultCapacity},
            minimum_available_handles : 1..FreeListDefaultCapacity] :
        c.initial_capacity > c.minimum_available_handles}

\* SlotMap<uint32_t> map{C, M} of the burn-through test, M >= 1.
BurnConfigs ==
    {c \in [initial_capacity : 2..MaxBurnCapacity,
            minimum_available_handles : 1..MaxBurnCapacity] :
        c.initial_capacity > c.minimum_available_handles}

InitScript ==
    /\ NDEBUG \in BOOLEAN
    /\ \/ /\ script = "readme"
          /\ \E c \in DefaultConfigs :
               Constructed(c.initial_capacity, c.minimum_available_handles,
                           FreeListDefaultCapacity)
       \/ /\ script = "burn"
          /\ \E c \in BurnConfigs :
               Constructed(c.initial_capacity, c.minimum_available_handles,
                           FreeListDefaultCapacity)

\* The readme's usage example: insert, get, remove; emplace, get, remove.
ReadmeStep ==
    /\ script = "readme"
    /\ \/ ops = 0 /\ \E v \in Values : InsertCall("insert", v)
       \/ ops \in {1, 4} /\ GetCall(last.h)
       \/ ops \in {2, 5} /\ RemoveCall(last.h)
       \/ ops = 3 /\ \E v \in Values : InsertCall("emplace", v)

\* Calls of the burn-through loop: h = insert; remove(h); and then
\* MAX_GENERATIONS * C times remove(insert(0)).
BurnLoopCalls == 2 * (1 + MAX_GENERATIONS * initialCapacity)

\* "Dead handle size methods": the loop, then C - M further inserts.
BurnStep ==
    /\ script = "burn"
    /\ \/ /\ ops < BurnLoopCalls /\ ops % 2 = 0
          /\ \E v \in Values : InsertCall("insert", v)
       \/ /\ ops < BurnLoopCalls /\ ops % 2 = 1
          /\ RemoveCall(last.h)
       \/ /\ ops >= BurnLoopCalls
          /\ ops < BurnLoopCalls + initialCapacity - m_minimum_queue_handles
          /\ \E v \in Values : InsertCall("insert", v)

NextScript == ReadmeStep \/ BurnStep

SpecScript == InitScript /\ [][NextScript]_vars

\* ----------------------------------------------------- FreeList on its own

\* Largest initial_capacity of a FreeList used directly.
MaxFreeListCapacity == 3
\* Number of push/pop calls made on it.
MaxFreeListOps == 8

InitFreeList ==
    /\ NDEBUG \in BOOLEAN
    /\ script = "freelist"
    /\ \E c \in 1..MaxFreeListCapacity : m_freelist = FreeList_new(c)
    /\ m_handle_count = 0
    /\ m_minimum_queue_handles = 0
    /\ m_data = << >>
    /\ m_generations = << >>
    /\ m_dead_indices = 0
    /\ m_pages = NoPages
    /\ mallocs = Heap_new(1)
    /\ fault = "none"
    /\ issued = {}
    /\ stored = << >>
    /\ removed = {}
    /\ misuse = FALSE
    /\ last = NoCall
    /\ ops = 0
    /\ initialCapacity = 0
    /\ sinceRemoval = << >>
    /\ pushed = << >>
    /\ popped = << >>

mapState == <<m_handle_count, m_minimum_queue_handles, m_data,
              m_generations, m_dead_indices, issued, stored, removed,
              misuse, initialCapacity, sinceRemoval, script, NDEBUG,
              m_pages, mallocs>>

\* list.push(k), k the number of pushes made before: every value pushed is
\* distinct.
FreeListPush ==
    /\ fault = "none"
    /\ ops < MaxFreeListOps
    /\ m_freelist' = FreeList_push(m_freelist, Len(pushed))
    /\ pushed' = Append(pushed, Len(pushed))
    /\ last' = [NoCall EXCEPT !.op = "push", !.v = Len(pushed),
                              !.at = GrowBranch(m_freelist)]
    /\ ops' = ops + 1
    /\ UNCHANGED <<mapState, fault, popped>>

\* list.pop(), called only while more values were pushed than popped.
FreeListPop ==
    /\ fault = "none"
    /\ ops < MaxFreeListOps
    /\ Len(popped) < Len(pushed)
    /\ \E garbage \in Garbage :
         \E p \in {FreeList_pop(m_freelist, NDEBUG, garbage)} :
           /\ fault' = p.trap
           /\ m_freelist' = p.list
           /\ popped' = IF p.trap = "none" THEN Append(popped, p.ret)
                        ELSE popped
           /\ last' = [NoCall EXCEPT !.op = "pop", !.ret = p.ret,
                                     !.popEmpty = p.wasEmpty]
    /\ ops' = ops + 1
    /\ UNCHANGED <<mapState, pushed>>

NextFreeList == FreeListPush \/ FreeListPop

SpecFreeList == InitFreeList /\ [][NextFreeList]_vars

\* list.pop() also on a list without entries, up to the first time the
\* caller has popped more values than were pushed.
FreeListPopAny ==
    /\ fault = "none"
    /\ ops < MaxFreeListOps
    /\ Len(popped) <= Len(pushed)
    /\ \E garbage \in Garbage :
         \E p \in {FreeList_pop(m_freelist, NDEBUG, garbage)} :
           /\ fault' = p.trap
           /\ m_freelist' = p.list
           /\ popped' = IF p.trap = "none" THEN Append(popped, p.ret)
                        ELSE popped
           /\ last' = [NoCall EXCEPT !.op = "pop", !.ret = p.ret,
                                     !.popEmpty = p.wasEmpty]
    /\ ops' = ops + 1
    /\ UNCHANGED <<mapState, pushed>>

NextFreeListAny == FreeListPush \/ FreeListPopAny

SpecFreeListAny == InitFreeList /\ [][NextFreeListAny]_vars

\* ------------------------------------------------------------ moved maps

\* The members of the map the caller holds, as one object.
This ==
    [m_handle_count |-> m_handle_count,
     m_minimum_queue_handles |-> m_minimum_queue_handles,
     m_data |-> m_data,
     m_generations |-> m_generations,
     m_freelist |-> m_freelist,
     m_dead_indices |-> m_dead_indices]

\* SlotMap(C, M) as an object: the destination of a move assignment before
\* the assignment.
SlotMap_new(C, M, flcap) ==
    [m_handle_count |-> C,
     m_minimum_queue_handles |-> M,
     m_data |-> [i \in 0..(C - 1) |-> NoObject],
     m_generations |-> [i \in 0..(C - 1) |-> 0],
     m_freelist |-> PushRange(FreeList_new(flcap), 0, C),
     m_dead_indices |-> 0]

\* A FreeList move constructor that starts from the default member
\* initialisers of m_head and m_tail instead of copying them.
FreeList_move_Rewound(other) ==
    [m_buffer |-> other.m_buffer, m_capacity |-> other.m_capacity,
     m_head |-> 0, m_tail |-> 0]

\* FreeList(FreeList &&other)
FreeList_move(other) ==
    [m_buffer |-> other.m_buffer, m_capacity |-> other.m_capacity,
     m_head |-> other.m_head, m_tail |-> other.m_tail]

\* FreeList::operator=(FreeList &&other)
FreeList_moveAssign(this, other) ==
    [this EXCEPT !.m_buffer = other.m_buffer,
                 !.m_capacity = other.m_capacity,
                 !.m_head = other.m_head,
                 !.m_tail = other.m_tail]

\* SlotMap(SlotMap &&other)
SlotMap_move(other) ==
    [m_handle_count |-> other.m_handle_count,
     m_minimum_queue_handles |-> other.m_minimum_queue_handles,
     m_data |-> other.m_data,
     m_generations |-> other.m_generations,
     m_freelist |-> FreeList_move(other.m_freelist),
     m_dead_indices |-> other.m_dead_indices]

\* SlotMap::operator=(SlotMap &&other)
SlotMap_moveAssign(this, other) ==
    [this EXCEPT
        !.m_handle_count = other.m_handle_count,
        !.m_minimum_queue_handles = other.m_minimum_queue_handles,
        !.m_data = other.m_data,
        !.m_generations = other.m_generations,
        !.m_freelist = FreeList_moveAssign(this.m_freelist, other.m_freelist),
        !.m_dead_indices = other.m_dead_indices]

\* SlotMap(C, M) of a further map: its three buffers are malloc'ed; the
\* caller's current map keeps the ones it holds.
Heap_construct(hp) == [hp EXCEPT !.made = @ + SlotMapBuffers]

\* The buffers of the map built last, the destination of an assignment.
Destination(hp) == (hp.made - SlotMapBuffers + 1)..hp.made

\* SlotMap(SlotMap &&other) with FreeList(FreeList &&other): the new map
\* takes the three pointers, other's are set to nullptr.
Heap_move(hp) == hp

\* SlotMap::operator=(SlotMap &&other) with FreeList::operator=(FreeList
\* &&other): m_data, m_generations and m_freelist.m_buffer of the
\* destination are assigned other's pointers, nothing is freed first;
\* other's are set to nullptr.
Heap_moveAssign(hp) == [hp EXCEPT !.lost = @ \cup Destination(hp)]

\* ~SlotMap() and ~FreeList() of every object in scope: std::free of the
\* three pointers; free(nullptr) in the objects that were moved from.
Heap_destroy(hp) == [hp EXCEPT !.freed = @ \cup hp.held, !.held = {}]

\* The caller goes on with the map 'dst' in place of the one it held;
\* 'was' is the capacity dst had before (Nullptr: dst did not exist), 'hp'
\* the heap after the move.
MovedTo(dst, op, was, hp) ==
    /\ fault = "none"
    /\ ops < MaxOps
    /\ m_handle_count' = dst.m_handle_count
    /\ m_minimum_queue_handles' = dst.m_minimum_queue_handles
    /\ m_data' = dst.m_data
    /\ m_generations' = dst.m_generations
    /\ m_freelist' = dst.m_freelist
    /\ m_dead_indices' = dst.m_dead_indices
    /\ mallocs' = hp
    /\ last' = [NoCall EXCEPT !.op = op, !.ret = was]
    /\ ops' = ops + 1
    /\ UNCHANGED <<NDEBUG, m_pages, fault, issued, stored, removed, misuse,
                   initialCapacity, sinceRemoval, script, pushed, popped>>

\* SlotMap<T> map_copy{std::move(map)};
MoveConstruct ==
    MovedTo(SlotMap_move(This), "move_ctor", Nullptr, Heap_move(mallocs))

\* SlotMap<T> map_copy{C, M}; map_copy = std::move(map);
MoveAssign ==
    \E c \in Configs :
        MovedTo(SlotMap_moveAssign(
                    SlotMap_new(c.initial_capacity,
                                c.minimum_available_handles,
                                FreeListDefaultCapacity),
                    This),
                "move_assign", c.initial_capacity,
                Heap_moveAssign(Heap_construct(mallocs)))

InitMove ==
    /\ NDEBUG \in BOOLEAN
    /\ script = "move"
    /\ \E c \in Configs :
         Constructed(c.initial_capacity, c.minimum_available_handles,
                     FreeListDefaultCapacity)

NextMove == Insert \/ Remove \/ MoveConstruct \/ MoveAssign

SpecMove == InitMove /\ [][NextMove]_vars

\* ------------------------------------------------------ the map's life

\* The caller's map has not been destroyed.
Alive == last.op # "destroy"

\* The map and the objects it was moved from go out of scope: ~SlotMap()
\* frees m_data and m_generations, ~FreeList() frees m_buffer.  Neither
\* calls a destructor of T: last.dtors, the ~T() calls made, is 0.
Destroy ==
    /\ fault = "none"
    /\ Alive
    /\ mallocs' = Heap_destroy(mallocs)
    /\ last' = [NoCall EXCEPT !.op = "destroy", !.dtors = 0]
    /\ ops' = ops + 1
    /\ UNCHANGED <<NDEBUG, m_pages, m_handle_count, m_minimum_queue_handles,
                   m_data, m_generations, m_freelist, m_dead_indices, fault,
                   issued, stored, removed, misuse, initialCapacity,
                   sinceRemoval, script, pushed, popped>>

LifeInsert == Alive /\ Insert

LifeRemove == Alive /\ Remove

LifeMoveConstruct == Alive /\ MoveConstruct

LifeMoveAssign == Alive /\ MoveAssign

InitLife ==
    /\ NDEBUG \in BOOLEAN
    /\ script = "life"
    /\ \E c \in Configs :
         Constructed(c.initial_capacity, c.minimum_available_handles,
                     FreeListDefaultCapacity)

NextLife ==
    LifeInsert \/ LifeRemove \/ LifeMoveConstruct \/ LifeMoveAssign \/ Destroy

SpecLife == InitLife /\ [][NextLife]_vars

\* ------------------------------------------------- throwing constructors

\* insert/emplace up to the placement new, where T's constructor throws:
\* the statements before it have run, the ones after it have not.
ThrowOutcome(garbage) ==
    LET need   == needNewHandles
        count1 == IF need THEN ResizedCount ELSE m_handle_count
        data1  == IF need THEN ResizedData ELSE m_data
        gens1  == IF need THEN ResizedGenerations ELSE m_generations
        fl1    == IF need THEN ResizedFreeList ELSE m_freelist
        p      == FreeList_pop(fl1, NDEBUG, garbage)
        index  == p.ret
        stop(trap, at) ==
            [trap |-> trap, at |-> at, count |-> m_handle_count,
             data |-> m_data, gens |-> m_generations, fl |-> m_freelist,
             index |-> Nullptr]
    IN  IF need /\ ~NDEBUG /\ ~(count1 <= MAX_HANDLES)
        THEN stop("assert", "resize")
        ELSE IF p.trap # "none"
        THEN stop(p.trap, "pop")
        ELSE IF ~(index < count1)
        THEN stop(IF NDEBUG THEN "ub" ELSE "assert", "index")
        ELSE [trap |-> "none", at |-> "throw", count |-> count1,
              data |-> data1, gens |-> gens1, fl |-> p.list,
              index |-> index]

InsertThrows ==
    /\ fault = "none"
    /\ ops < MaxOps
    /\ \E garbage \in Garbage :
       \E o \in {ThrowOutcome(garbage)} :
         /\ fault' = o.trap
         /\ m_handle_count' = o.count
         /\ m_data' = o.data
         /\ m_generations' = o.gens
         /\ m_freelist' = o.fl
         /\ last' = [NoCall EXCEPT !.op = "insert_throws", !.ret = o.index,
                                   !.at = o.at]
    /\ ops' = ops + 1
    /\ UNCHANGED <<NDEBUG, mallocs, m_pages, m_minimum_queue_handles, m_dead_indices, issued,
                   stored, removed, misuse, initialCapacity, sinceRemoval,
                   script, pushed, popped>>

InitThrow ==
    /\ NDEBUG \in BOOLEAN
    /\ script = "throw"
    /\ \E c \in Configs :
         Constructed(c.initial_capacity, c.minimum_available_handles,
                     FreeListDefaultCapacity)

NextThrow == Insert \/ Remove \/ InsertThrows

SpecThrow == InitThrow /\ [][NextThrow]_vars

\* ------------------------------------------------ constructor arguments

\* Every pair of constructor arguments, the ones the asserts refuse
\* included.
AnyConfigs ==
    [initial_capacity : 0..MaxInitialCapacity,
     minimum_available_handles : 0..MaxInitialCapacity]

\* The two asserts at the top of the constructor.
CtorAsserts(C, M) == C > 0 /\ C > M

\* The program stopped by a failed assert of SlotMap(C, M): no map exists.
Rejected(C, M) ==
    /\ m_handle_count = C
    /\ m_minimum_queue_handles = M
    /\ m_data = << >>
    /\ m_generations = << >>
    /\ m_freelist = FreeList_new(FreeListDefaultCapacity)
    /\ m_dead_indices = 0
    /\ m_pages = NoPages
    /\ mallocs = Heap_new(1)
    /\ fault = "assert"
    /\ issued = {}
    /\ stored = << >>
    /\ removed = {}
    /\ misuse = FALSE
    /\ last = NoCall
    /\ ops = 0
    /\ initialCapacity = C
    /\ sinceRemoval = << >>
    /\ pushed = << >>
    /\ popped = << >>

InitCtor ==
    /\ NDEBUG \in BOOLEAN
    /\ script = "ctor"
    /\ \E c \in AnyConfigs :
         IF ~NDEBUG /\ ~CtorAsserts(c.initial_capacity,
                                    c.minimum_available_handles)
         THEN Rejected(c.initial_capacity, c.minimum_available_handles)
         ELSE Constructed(c.initial_capacity, c.minimum_available_handles,
                          FreeListDefaultCapacity)

NextCtor == Insert \/ Remove

SpecCtor == InitCtor /\ [][NextCtor]_vars

\* ----------------------------------------------------------- paged SlotMap
\* In the paged SlotMap m_data and m_generations are the heap: page
\* address -> the page's cells; m_pages holds the two tables of page
\* addresses. m_handle_count is not a member and stays 0.

\* Calls made on a paged map.
MaxPagedOps == 6

\* malloc: an address no allocation of the heap has (pages are only freed
\* by the destructor).
NewAddress(heap) == Cardinality(DOMAIN heap) + 1

itemsInPage(pages) == asNumber(pages.m_items_in_page)

pageCount(pages) == pages.m_held_page_count

\* An allocateNewPage that lays the pages out again when the tables grow:
\* every page gets a new address and the old content is copied over.
allocateNewPage_Relocating(pages, items, generations) ==
    LET held == pages.m_held_page_count
        P    == itemsInPage(pages)
        addr(k) == held + k
    IN  [pages |-> [pages EXCEPT
                      !.m_allocated_page_count = held + 1,
                      !.m_item_pages = [k \in 1..(held + 1) |-> addr(k)],
                      !.m_generation_pages = [k \in 1..(held + 1) |-> addr(k)],
                      !.m_held_page_count = held + 1],
         items |-> [a \in {addr(k) : k \in 1..(held + 1)} |->
                      IF a - held <= held
                      THEN items[pages.m_item_pages[a - held]]
                      ELSE [i \in 0..(P - 1) |-> NoObject]],
         generations |-> [a \in {addr(k) : k \in 1..(held + 1)} |->
                      IF a - held <= held
                      THEN generations[pages.m_generation_pages[a - held]]
                      ELSE [i \in 0..(P - 1) |-> 0]]]

\* PageArray::allocateNewPage on the tables 'pages' and the two heaps.
allocateNewPage(pages, items, generations) ==
    LET held  == pages.m_held_page_count
        full  == held = pages.m_allocated_page_count
        alloc == IF full
                 THEN (IF pages.m_allocated_page_count = 0
                       THEN 1 ELSE pages.m_allocated_page_count)
                      * SLOTMAP_RESIZE_MULTIPLIER
                 ELSE pages.m_allocated_page_count
        table(t) == IF full THEN Realloc(t, alloc) ELSE t
        P     == itemsInPage(pages)
        ia    == NewAddress(items)
        ga    == NewAddress(generations)
    IN  [pages |-> [pages EXCEPT
                      !.m_allocated_page_count = alloc,
                      !.m_item_pages =
                          [table(pages.m_item_pages) EXCEPT ![held + 1] = ia],
                      !.m_generation_pages =
                          [table(pages.m_generation_pages)
                              EXCEPT ![held + 1] = ga],
                      !.m_held_page_count = held + 1],
         items |-> [a \in DOMAIN items \cup {ia} |->
                      IF a = ia THEN [i \in 0..(P - 1) |-> NoObject]
                      ELSE items[a]],
         generations |-> [a \in DOMAIN generations \cup {ga} |->
                      IF a = ga THEN [i \in 0..(P - 1) |-> 0]
                      ELSE generations[a]]]

\* PageArray(items_in_page): the default members, then allocateNewPage().
PageArray_new(items_in_page) ==
    allocateNewPage([NoPages EXCEPT !.m_items_in_page = items_in_page],
                    << >>, << >>)

\* The unsigned arithmetic of operator[], on words of WordBits bits (the
\* uint32_t of the code, scaled): 0xFFFFFFFF, >>, << (the bits shifted out
\* of the word are lost), ~ and &.
WordBits == 16

AllOnes == 2 ^ WordBits - 1

ShiftRight(x, n) == x \div 2 ^ n

ShiftLeft(x, n) == (x * 2 ^ n) % 2 ^ WordBits

BitNot(x) == AllOnes - x

RECURSIVE BitAnd(_, _)
BitAnd(x, y) ==
    IF x = 0 \/ y = 0 THEN 0
    ELSE (x % 2) * (y % 2) + 2 * BitAnd(x \div 2, y \div 2)

\* PageArray::operator[]: page and item of an index, the assert on the
\* page, and the two addresses of the Item.
PageOf(pages, index) == ShiftRight(index, pages.m_items_in_page)

ItemOf(pages, index) ==
    BitAnd(index, BitNot(ShiftLeft(AllOnes, pages.m_items_in_page)))

InPages(pages, index) == PageOf(pages, index) < pages.m_held_page_count

ItemPtr(pages, index) ==
    <<pages.m_item_pages[PageOf(pages, index) + 1], ItemOf(pages, index)>>

GenerationPtr(pages, index) ==
    <<pages.m_generation_pages[PageOf(pages, index) + 1],
      ItemOf(pages, index)>>

\* nullptr as the result of the paged get.
NullLocation == << >>

PagedCapacity == pageCount(m_pages) * itemsInPage(m_pages)

PagedValidCount ==
    PagedCapacity - FreeList_size(m_freelist) - m_dead_indices

\* SlotMap(items_in_page, minimum_available_handles) of the paged map: the
\* configurations that pass the constructor's assert.
PagedConfigs ==
    {c \in [items_in_page : PowerOfTwo,
            minimum_available_handles : 0..asNumber(MaxPagePower)] :
        asNumber(c.items_in_page) > c.minimum_available_handles}

InitPaged ==
    /\ NDEBUG \in BOOLEAN
    /\ script = "paged"
    /\ \E c \in PagedConfigs :
       \E a \in {PageArray_new(c.items_in_page)} :
         /\ m_pages = a.pages
         /\ m_data = a.items
         /\ m_generations = a.generations
         /\ m_minimum_queue_handles = c.minimum_available_handles
         /\ m_freelist = PushRange(FreeList_new(FreeListDefaultCapacity), 0,
                                   asNumber(c.items_in_page))
         /\ initialCapacity = asNumber(c.items_in_page)
    /\ m_handle_count = 0
    /\ m_dead_indices = 0
    /\ mallocs = Heap_new(SlotMapBuffers)
    /\ fault = "none"
    /\ issued = {}
    /\ stored = << >>
    /\ removed = {}
    /\ misuse = FALSE
    /\ last = NoCall
    /\ ops = 0
    /\ sinceRemoval = << >>
    /\ pushed = << >>
    /\ popped = << >>

\* for (i = lo; i < hi; ++i): the values of i, in order.
RECURSIVE Range(_, _)
Range(lo, hi) == IF lo >= hi THEN << >> ELSE <<lo>> \o Range(lo + 1, hi)

\* A getFreeIndex that appends two pages per growth and pushes the indices
\* of the last one.
getFreeIndex_Doubling(garbage) ==
    LET need  == FreeList_size(m_freelist) < m_minimum_queue_handles
        one   == allocateNewPage(m_pages, m_data, m_generations)
        a     == IF need
                 THEN allocateNewPage(one.pages, one.items, one.generations)
                 ELSE [pages |-> m_pages, items |-> m_data,
                       generations |-> m_generations]
        previous_count == (pageCount(a.pages) - 1) * itemsInPage(a.pages)
        new_count      == pageCount(a.pages) * itemsInPage(a.pages)
        fl1   == IF need
                 THEN PushRange(m_freelist, previous_count, new_count)
                 ELSE m_freelist
        p     == FreeList_pop(fl1, NDEBUG, garbage)
    IN  [trap |-> p.trap, index |-> p.ret, fl |-> p.list, pages |-> a.pages,
         items |-> a.items, generations |-> a.generations, grew |-> need,
         pushes |-> IF need THEN Range(previous_count, new_count)
                    ELSE << >>]

\* getFreeIndex(): the page appended when the free list is short, the
\* indices pushed for it, and the pop.
getFreeIndex(garbage) ==
    LET need  == FreeList_size(m_freelist) < m_minimum_queue_handles
        a     == IF need
                 THEN allocateNewPage(m_pages, m_data, m_generations)
                 ELSE [pages |-> m_pages, items |-> m_data,
                       generations |-> m_generations]
        previous_count == (pageCount(a.pages) - 1) * itemsInPage(a.pages)
        new_count      == pageCount(a.pages) * itemsInPage(a.pages)
        fl1   == IF need
                 THEN PushRange(m_freelist, previous_count, new_count)
                 ELSE m_freelist
        p     == FreeList_pop(fl1, NDEBUG, garbage)
    IN  [trap |-> p.trap, index |-> p.ret, fl |-> p.list, pages |-> a.pages,
         items |-> a.items, generations |-> a.generations, grew |-> need,
         pushes |-> IF need THEN Range(previous_count, new_count)
                    ELSE << >>]

\* insert(item) / emplace(args...) of the paged map.
PagedInsertOutcome(v, garbage) ==
    LET f     == getFreeIndex(garbage)
        index == f.index
        ip    == ItemPtr(f.pages, index)
        gp    == GenerationPtr(f.pages, index)
        h     == Handle(index, f.generations[gp[1]][gp[2]])
        stop(trap, at) ==
            [trap |-> trap, at |-> at, fl |-> f.fl, pages |-> f.pages,
             items |-> f.items, generations |-> f.generations,
             h |-> NullHandle, index |-> Nullptr, grew |-> f.grew,
             pushes |-> f.pushes]
    IN  IF f.trap # "none"
        THEN stop(f.trap, "pop")
        ELSE IF ~InPages(f.pages, index)
        THEN stop(IF NDEBUG THEN "ub" ELSE "assert", "index")
        ELSE IF ~NDEBUG /\ ~HandleCtorAsserts(h)
        THEN stop("assert", "handle")
        ELSE [trap |-> "none", at |-> "", fl |-> f.fl, pages |-> f.pages,
              items |-> [f.items EXCEPT ![ip[1]][ip[2]] = v],
              generations |-> f.generations, h |-> h, index |-> index,
              grew |-> f.grew, pushes |-> f.pushes]

PagedInsertCall(op, v) ==
    /\ fault = "none"
    /\ \E garbage \in Garbage :
       \E o \in {PagedInsertOutcome(v, garbage)} :
         /\ fault' = o.trap
         /\ m_pages' = o.pages
         /\ m_data' = o.items
         /\ m_generations' = o.generations
         /\ m_freelist' = o.fl
         /\ pushed' = pushed \o o.pushes
         /\ last' = [NoCall EXCEPT !.op = op, !.h = o.h, !.v = v,
                                   !.ret = o.index, !.at = o.at,
                                   !.grew = o.grew]
         /\ IF o.trap = "none"
            THEN /\ issued' = issued \cup {o.h}
                 /\ stored' = [x \in live \cup {o.h} |->
                                 IF x = o.h THEN v ELSE stored[x]]
            ELSE UNCHANGED <<issued, stored>>
    /\ ops' = ops + 1
    /\ UNCHANGED <<NDEBUG, mallocs, m_handle_count, m_minimum_queue_handles,
                   m_dead_indices, removed, misuse, initialCapacity,
                   sinceRemoval, script, popped>>

PagedInsert ==
    ops < MaxPagedOps /\ \E v \in Values : PagedInsertCall("insert", v)

PagedEmplace ==
    ops < MaxPagedOps /\ \E v \in Values : PagedInsertCall("emplace", v)

\* The checks at the top of the paged remove and get: how the call ends
\* before it reaches the slot, "none" if it reaches it.
PagedEntry(h) ==
    IF ~NDEBUG /\ ~isValid(h) THEN "assert"
    ELSE IF ~InPages(m_pages, h.m_index)
    THEN (IF NDEBUG THEN "ub" ELSE "assert")
    ELSE "none"

\* remove(handle) of the paged map.
PagedRemoveOutcome(h) ==
    LET index == h.m_index
        ip    == ItemPtr(m_pages, index)
        gp    == GenerationPtr(m_pages, index)
        gen   == (m_generations[gp[1]][gp[2]] + 1) % GenerationCounterModulus
    IN  IF PagedEntry(h) # "none"
        THEN [trap |-> PagedEntry(h), items |-> m_data,
              generations |-> m_generations, fl |-> m_freelist,
              dead |-> m_dead_indices, dtors |-> 0]
        ELSE [trap |-> "none",
              items |-> [m_data EXCEPT ![ip[1]][ip[2]] = NoObject],
              generations |-> [m_generations EXCEPT ![gp[1]][gp[2]] = gen],
              fl |-> IF gen < MAX_GENERATIONS
                     THEN FreeList_push(m_freelist, index)
                     ELSE m_freelist,
              dead |-> IF gen < MAX_GENERATIONS
                       THEN m_dead_indices
                       ELSE m_dead_indices + 1,
              dtors |-> 1]

PagedRemove ==
    /\ fault = "none"
    /\ ops < MaxPagedOps
    /\ \E h \in issued \cup {NullHandle} :
       \E o \in {PagedRemoveOutcome(h)} :
         /\ fault' = o.trap
         /\ m_data' = o.items
         /\ m_generations' = o.generations
         /\ m_freelist' = o.fl
         /\ m_dead_indices' = o.dead
         /\ last' = [NoCall EXCEPT !.op = "remove", !.h = h,
                                   !.dtors = o.dtors]
         /\ IF h \in live
            THEN /\ stored' = [x \in live \ {h} |-> stored[x]]
                 /\ removed' = removed \cup {h}
                 /\ UNCHANGED misuse
            ELSE /\ misuse' = TRUE
                 /\ UNCHANGED <<stored, removed>>
    /\ ops' = ops + 1
    /\ UNCHANGED <<NDEBUG, mallocs, m_pages, m_handle_count, m_minimum_queue_handles,
                   issued, initialCapacity, sinceRemoval, script, pushed,
                   popped>>

\* get(handle) of the paged map: the address returned, or NullLocation.
PagedGetOutcome(h) ==
    LET gp == GenerationPtr(m_pages, h.m_index) IN
    IF PagedEntry(h) # "none"
    THEN [trap |-> PagedEntry(h), ret |-> NullLocation]
    ELSE IF h.m_generation = m_generations[gp[1]][gp[2]]
    THEN [trap |-> "none", ret |-> ItemPtr(m_pages, h.m_index)]
    ELSE [trap |-> "none", ret |-> NullLocation]

PagedGet ==
    /\ fault = "none"
    /\ ops < MaxPagedOps
    /\ \E h \in issued \cup {NullHandle} :
       \E o \in {PagedGetOutcome(h)} :
         /\ fault' = o.trap
         /\ last' = [NoCall EXCEPT !.op = "get", !.h = h, !.ret = o.ret]
    /\ ops' = ops + 1
    /\ UNCHANGED <<NDEBUG, mallocs, m_pages, m_handle_count, m_minimum_queue_handles,
                   m_data, m_generations, m_freelist, m_dead_indices, issued,
                   stored, removed, misuse, initialCapacity, sinceRemoval,
                   script, pushed, popped>>

NextPaged == PagedInsert \/ PagedEmplace \/ PagedRemove \/ PagedGet

SpecPaged == InitPaged /\ [][NextPaged]_vars

\* ------------------------------------------------- PageArray on its own

\* Pages a PageArray on its own is grown to.
MaxPageArrayPages == 3

\* The indices operator[] is called with: every index of the largest
\* array, the first one past it, and the index of the null handle.
PageArrayIndices ==
    0..(MaxPageArrayPages * asNumber(MaxPagePower)) \cup {NullHandle.m_index}

\* PageArray::operator[](index): the two asserts, then the address of the
\* item. Without the asserts a page at or past m_held_page_count is read
\* from the table of pages: past its end, or an entry never written.
PageArray_at(pages, index) ==
    IF ~InPages(pages, index)
    THEN [trap |-> IF NDEBUG THEN "ub" ELSE "assert", ptr |-> NullLocation]
    ELSE IF ItemOf(pages, index) >= asNumber(pages.m_items_in_page) /\ ~NDEBUG
    THEN [trap |-> "assert", ptr |-> NullLocation]
    ELSE [trap |-> "none", ptr |-> ItemPtr(pages, index)]

InitPageArray ==
    /\ NDEBUG \in BOOLEAN
    /\ script = "pagearray"
    /\ \E p \in PowerOfTwo :
       \E a \in {PageArray_new(p)} :
         /\ m_pages = a.pages
         /\ m_data = a.items
         /\ m_generations = a.generations
         /\ initialCapacity = asNumber(p)
    /\ m_minimum_queue_handles = 0
    /\ m_freelist = FreeList_new(FreeListDefaultCapacity)
    /\ m_handle_count = 0
    /\ m_dead_indices = 0
    /\ mallocs = Heap_new(SlotMapBuffers)
    /\ fault = "none"
    /\ issued = {}
    /\ stored = << >>
    /\ removed = {}
    /\ misuse = FALSE
    /\ last = NoCall
    /\ ops = 0
    /\ sinceRemoval = << >>
    /\ pushed = << >>
    /\ popped = << >>

\* m_pages.allocateNewPage()
PageArrayAllocate ==
    /\ fault = "none"
    /\ ops < MaxPagedOps
    /\ pageCount(m_pages) < MaxPageArrayPages
    /\ \E a \in {allocateNewPage(m_pages, m_data, m_generations)} :
         /\ m_pages' = a.pages
         /\ m_data' = a.items
         /\ m_generations' = a.generations
    /\ last' = [NoCall EXCEPT !.op = "allocateNewPage"]
    /\ ops' = ops + 1
    /\ UNCHANGED <<NDEBUG, mallocs, m_handle_count, m_minimum_queue_handles,
                   m_freelist, m_dead_indices, fault, issued, stored,
                   removed, misuse, initialCapacity, sinceRemoval, script,
                   pushed, popped>>

\* m_pages[index]
PageArrayAt ==
    /\ fault = "none"
    /\ ops < MaxPagedOps
    /\ \E index \in PageArrayIndices :
       \E o \in {PageArray_at(m_pages, index)} :
         /\ fault' = o.trap
         /\ last' = [NoCall EXCEPT !.op = "at", !.v = index, !.ret = o.ptr]
    /\ ops' = ops + 1
    /\ UNCHANGED <<NDEBUG, mallocs, m_pages, m_handle_count,
                   m_minimum_queue_handles, m_data, m_generations,
                   m_freelist, m_dead_indices, issued, stored, removed,
                   misuse, initialCapacity, sinceRemoval, script, pushed,
                   popped>>

NextPageArray == PageArrayAllocate \/ PageArrayAt

SpecPageArray == InitPageArray /\ [][NextPageArray]_vars

\* ---------------------------------------------------------------- claims

\* What get(h) hands back in the current state.
GetRet(h) == GetOutcome(h).ret

IsInsert(call) == call.op \in {"insert", "emplace"}

\* The slots whose generation has reached the exhaustion marker.
ExhaustedSlots ==
    {i \in DOMAIN m_generations : m_generations[i] >= MAX_GENERATIONS}

\* C1: round trip - in every reachable state, the handle h that insert(v)
\* or emplace(v) has just returned satisfies get(h) != nullptr and
\* *get(h) == v, also when the call grew the map.
C1_RoundTrip ==
    (fault = "none" /\ IsInsert(last)) =>
        /\ GetOutcome(last.h).trap = "none"
        /\ GetRet(last.h) # Nullptr
        /\ m_data[GetRet(last.h)] = last.v

\* C2: invalidation is permanent - once remove(h) has been called on a
\* live handle h, get(h) returns nullptr in every later state, whatever
\* insert/emplace/remove calls follow (slot reused, exhausted, map grown).
\* (removed holds exactly the handles remove was called on while live.)
C2_InvalidationPermanent ==
    fault = "none" =>
        \A h \in removed : GetOutcome(h) = [trap |-> "none", ret |-> Nullptr]

\* C3: live entries are untouched by operations on other entries - for a
\* live handle h holding v, every insert/emplace and every remove of another
\* live handle leaves get(h) non-null with value v, and two live handles
\* never resolve to the same slot.
C3_LiveEntriesUntouched ==
    [][ (fault' = "none" /\ ~misuse') =>
          /\ \A h \in live :
                \/ last'.op = "remove" /\ last'.h = h
                \/ /\ GetRet(h)' # Nullptr
                   /\ m_data'[GetRet(h)'] = stored[h]
          /\ \A h1, h2 \in live' :
                h1 # h2 => GetRet(h1)' # GetRet(h2)' ]_vars

\* A handle that was removed earlier and whose generation no longer equals
\* its slot's generation.
Stale(h) ==
    /\ h \in removed
    /\ h \notin live
    /\ h.m_index < m_handle_count
    /\ h.m_generation # m_generations[h.m_index]

\* C4: remove(h) on a stale handle is a no-op - no destructor runs, the
\* slot's generation, the free list, the dead-slot counter and validCount()
\* are unchanged, and an object since inserted into the slot stays
\* retrievable through its own handle.
C4_StaleRemoveIsNoOp ==
    [][ (ops' = ops + 1 /\ last'.op = "remove" /\ Stale(last'.h)) =>
          /\ fault' = "none"
          /\ last'.dtors = 0
          /\ UNCHANGED <<m_data, m_generations, m_freelist, m_dead_indices>>
          /\ validCount' = validCount
          /\ \A h \in live : GetRet(h)' = GetRet(h) ]_vars

\* C5: handle uniqueness over history - in a run where remove is only
\* called on live handles, every handle insert/emplace returns compares
\* unequal (operator==) to every handle the map returned earlier.
C5_HandlesUniqueOverHistory ==
    (fault = "none" /\ ~misuse /\ IsInsert(last)) => last.fresh

\* C6: validCount() equals the number of live objects - after any sequence
\* of insert/emplace calls and remove calls on live handles, validCount()
\* is the number of handles issued and not yet removed.
C6_ValidCountIsLiveCount ==
    (fault = "none" /\ ~misuse) => validCount = Cardinality(live)

\* C7: in every reachable state get(Handle()) returns nullptr and
\* remove(Handle()) changes nothing; neither call aborts nor touches slot
\* storage.
C7_NullHandleRejected ==
    [][ (ops' = ops + 1 /\ last'.op \in {"get", "remove"} /\
         HandleEq(last'.h, NullHandle)) =>
          /\ fault' = "none"
          /\ last'.ret = Nullptr
          /\ last'.dtors = 0
          /\ UNCHANGED mapVars ]_vars

\* C8: get and remove accept a handle only if its index lies in
\* [0, capacity()) - a structurally valid handle whose index is capacity()
\* or larger yields nullptr from get and a no-op from remove, and never
\* addresses the data or generation arrays.
C8_IndexBelowCapacity ==
    [][ (ops' = ops + 1 /\ last'.op \in {"get", "remove"} /\
         isValid(last'.h) /\ last'.h.m_index >= capacity) =>
          /\ fault' = "none"
          /\ last'.ret = Nullptr
          /\ last'.dtors = 0
          /\ UNCHANGED mapVars ]_vars

\* C9: insert/emplace always succeeds - for every configuration the
\* constructor accepts (minimum available 0 included) and after any prior
\* calls short of index-width overflow, the free list is non-empty when
\* insert/emplace pops its index.
C9_PopNeverOnEmptyList ==
    (IsInsert(last) /\ last.at # "resize" /\ m_handle_count <= MAX_HANDLES) =>
        ~last.popEmpty

\* C10: exhaustion is permanent - the remove that raises a slot's generation
\* to MAX_GENERATIONS does not push the index and adds exactly one to the
\* dead-slot counter; afterwards insert/emplace never returns that index
\* again and validCount() does not count it.
C10_ExhaustionPermanent ==
    [][ /\ \A i \in DOMAIN m_generations :
             (fault' = "none" /\ m_generations[i] = MAX_GENERATIONS - 1 /\
              m_generations'[i] = MAX_GENERATIONS) =>
                /\ m_freelist' = m_freelist
                /\ m_dead_indices' = m_dead_indices + 1
        /\ (fault' = "none" /\ ops' = ops + 1 /\ IsInsert(last')) =>
                last'.ret \notin ExhaustedSlots'
        /\ fault' = "none" =>
                validCount' <= capacity' - Cardinality(ExhaustedSlots') ]_vars

\* The insertions made so far on a map that only receives insertions.
Insertions == ops

\* C11 as the spec gives it: on a fresh map that only receives insertions,
\* capacity() is C after each of the first C - M insertions and greater
\* than C after the (C - M + 1)-th.
C11_SpecThreshold ==
    (script = "growth" /\ fault = "none") =>
        /\ Insertions <= initialCapacity - m_minimum_queue_handles
              => capacity = initialCapacity
        /\ Insertions = initialCapacity - m_minimum_queue_handles + 1
              => capacity > initialCapacity

\* C11, amended: on a fresh map that only receives insertions, capacity()
\* is C after each of the first C - M + 1 insertions; when M >= 1 the
\* (C - M + 2)-th insertion is the first to grow the map, to 2 * C; when
\* M = 0 no insertion grows it.
C11_GrowthThreshold ==
    (script = "growth" /\ fault = "none") =>
        /\ Insertions <= initialCapacity - m_minimum_queue_handles + 1
              => capacity = initialCapacity
        /\ (m_minimum_queue_handles >= 1 /\
            Insertions = initialCapacity - m_minimum_queue_handles + 2)
              => (capacity = SLOTMAP_RESIZE_MULTIPLIER * initialCapacity /\
                  last.grew)
        /\ m_minimum_queue_handles = 0 => capacity = initialCapacity

\* C11 witness: the (C - M + 2)-th insertion has just grown a map of the
\* largest initial capacity.
C11_Witness ==
    /\ script = "growth" /\ fault = "none"
    /\ initialCapacity = MaxGrowthCapacity
    /\ m_minimum_queue_handles >= 1
    /\ Insertions = initialCapacity - m_minimum_queue_handles + 2
    /\ last.grew
    /\ capacity > initialCapacity

\* C12: growth threshold as the test asserts it - on a fresh map that only
\* receives insertions, after C - M + 1 insertions capacity() is still C and
\* validCount() is C - M + 1; the next insertion makes capacity() 2 * C and
\* validCount() C - M + 2.
C12_TestThreshold ==
    script = "growth" =>
        /\ Insertions = initialCapacity - m_minimum_queue_handles + 1
              => /\ fault = "none"
                 /\ capacity = initialCapacity
                 /\ validCount = initialCapacity - m_minimum_queue_handles + 1
        /\ Insertions = initialCapacity - m_minimum_queue_handles + 2
              => /\ fault = "none"
                 /\ capacity = SLOTMAP_RESIZE_MULTIPLIER * initialCapacity
                 /\ validCount = initialCapacity - m_minimum_queue_handles + 2

\* The size() of the free list at the moment the next insert/emplace pops:
\* after resize() when the call grows the map.
PopSize ==
    FreeList_size(IF needNewHandles THEN ResizedFreeList ELSE m_freelist)

\* C13: minimum-available floor - whenever insert/emplace pops an index the
\* free list holds at least minimum_available_handles entries at that
\* moment (one growth step restores the floor), and a single call grows the
\* map at most once.
C13_MinimumFloor ==
    [][ (ops' = ops + 1 /\ IsInsert(last') /\ last'.at # "resize") =>
          /\ PopSize >= m_minimum_queue_handles
          /\ capacity' \in {capacity, SLOTMAP_RESIZE_MULTIPLIER * capacity}
      ]_vars

\* C14: reuse distance - between the removal of a slot's object and the
\* next time insert/emplace issues that slot index, at least
\* minimum_available_handles other slot indices are issued.
C14_ReuseDistance ==
    [][ (ops' = ops + 1 /\ IsInsert(last') /\ fault' = "none" /\
         last'.ret \in DOMAIN sinceRemoval) =>
          sinceRemoval[last'.ret] >= m_minimum_queue_handles ]_vars

\* The values pushed and not yet popped, as a count.
Queued == Len(pushed) - Len(popped)

\* C15: FreeList is a FIFO queue - for every interleaving of push and pop
\* (pop only while entries are queued) the k-th pop returns the value of
\* the k-th push, contiguous or wrapped and across both grow paths.
C15_FreeListFifo ==
    script = "freelist" =>
        /\ fault = "none"
        /\ \A k \in 1..Len(popped) : popped[k] = pushed[k]

\* C16: FreeList::size() equals the number of pushes minus the number of
\* pops in every reachable state (tail >= head or tail < head), and empty()
\* is true exactly when that number is 0.
C16_FreeListSize ==
    (script = "freelist" /\ fault = "none") =>
        /\ FreeList_size(m_freelist) = Queued
        /\ FreeList_empty(m_freelist) <=> (Queued = 0)

\* C17: the readme's usage sequence on a map built with the default
\* arguments - insert, get, remove, emplace, get, remove trips no assertion,
\* each get returns the object just stored, capacity() stays at its initial
\* value and validCount() is 0 after each remove.
C17_ReadmeSequence ==
    script = "readme" =>
        /\ fault = "none"
        /\ capacity = initialCapacity
        /\ ops \in {2, 5} =>
              /\ last.op = "get" /\ last.ret # Nullptr
              /\ last.h \in live /\ last.v = stored[last.h]
        /\ ops \in {3, 6} => (last.op = "remove" /\ validCount = 0)

\* The last call was an insert or emplace that returned a handle: it ended
\* normally, or it went on past an index outside the arrays (NDEBUG).
Returned ==
    /\ last.op \in {"insert", "emplace"}
    /\ fault = "none" \/ (fault = "ub" /\ last.at = "index")

C19_BurnThrough ==
    script = "burn" =>
        /\ fault = "none"
        /\ ops = BurnLoopCalls =>
              /\ capacity = SLOTMAP_RESIZE_MULTIPLIER * initialCapacity
              /\ validCount = 0
              /\ \A i \in 0..(initialCapacity - 1) :
                    m_generations[i] = MAX_GENERATIONS
        /\ ops = BurnLoopCalls + initialCapacity - m_minimum_queue_handles =>
              /\ capacity = SLOTMAP_RESIZE_MULTIPLIER * initialCapacity
              /\ validCount = initialCapacity - m_minimum_queue_handles

\* C20: remove of a live handle invokes T's destructor exactly once on the
\* stored object; emplace invokes no destructor at all, and insert invokes
\* none on the stored copy.
C20_DestructorCalls ==
    [][ /\ (ops' = ops + 1 /\ last'.op = "remove" /\ last'.h \in live) =>
              /\ fault' = "none"
              /\ last'.dtors = 1
              /\ m_data[last'.h.m_index] = stored[last'.h]
              /\ m_data'[last'.h.m_index] = NoObject
        /\ (ops' = ops + 1 /\ last'.op \in {"insert", "emplace"}) =>
              /\ last'.dtors = 0
              /\ fault' = "none" =>
                    m_data'[last'.ret] = stored'[last'.h] ]_vars

IsMove(call) == call.op \in {"move_ctor", "move_assign"}

\* C21: move construction and move assignment transfer the whole map - the
\* destination's capacity() and validCount() equal the source's values
\* before the move, every handle live in the source resolves through the
\* destination to the same slot and value, and remove/insert on the
\* destination behave as they would have on the source (every member the
\* calls read or write has the value it had in the source).
C21_MoveTransfersMap ==
    [][ (ops' = ops + 1 /\ IsMove(last')) =>
          /\ capacity' = capacity
          /\ validCount' = validCount
          /\ \A h \in live :
                /\ GetOutcome(h)' = GetOutcome(h)
                /\ GetRet(h) # Nullptr => m_data'[GetRet(h)] = m_data[GetRet(h)]
          /\ This' = This ]_vars

\* C21 witness: a map that has grown, holds a live object and has popped
\* and pushed entries of its free list is move-assigned to a map of another
\* capacity, and the caller then inserts through the destination.
C21_Witness ==
    /\ script = "move" /\ fault = "none"
    /\ last.op = "move_assign" /\ last.ret # m_handle_count
    /\ m_handle_count > initialCapacity
    /\ m_freelist.m_head # 0
    /\ \E h \in live : GetRet(h) # Nullptr /\ m_data[GetRet(h)] = stored[h]

\* C22: capacity overflow is fatal, never silent - an insert/emplace whose
\* growth would raise capacity above MAX_HANDLES aborts (so capacity never
\* exceeds MAX_HANDLES), and no handle is issued whose index was truncated
\* or wrapped to fit the index field.
C22_OverflowIsFatal ==
    /\ capacity <= MAX_HANDLES
    /\ (IsInsert(last) /\ fault = "none") => last.h.m_index = last.ret

\* C23: if T's constructor fails during insert/emplace the slot stays free
\* and unconsumed - the free list still contains the index, the slot's
\* generation is unchanged and validCount() is the same as before the call.
C23_FailedConstructionKeepsSlotFree ==
    [][ (ops' = ops + 1 /\ last'.op = "insert_throws" /\
         last'.at = "throw") =>
          /\ last'.ret \in
                {FreeListContent(m_freelist')[k] :
                    k \in 1..Len(FreeListContent(m_freelist'))}
          /\ last'.ret \in DOMAIN m_generations =>
                m_generations'[last'.ret] = m_generations[last'.ret]
          /\ validCount' = validCount ]_vars

\* C24: get never mutates the map - for every handle (live, stale, null or
\* out of range) a call of get leaves the free list, all generations, the
\* dead-slot counter, capacity() and validCount() unchanged.
C24_GetDoesNotMutate ==
    [][ (ops' = ops + 1 /\ last'.op = "get") =>
          /\ m_freelist' = m_freelist
          /\ m_generations' = m_generations
          /\ m_dead_indices' = m_dead_indices
          /\ m_data' = m_data
          /\ capacity' = capacity
          /\ validCount' = validCount ]_vars

\* C24 witness: get has just turned down a stale handle of a map that
\* holds a live object, an exhausted slot and queued free indices.
C24_Witness ==
    /\ fault = "none"
    /\ last.op = "get" /\ Stale(last.h) /\ last.ret = Nullptr
    /\ live # {}
    /\ m_dead_indices > 0
    /\ FreeList_size(m_freelist) > 0

\* The slots that hold no object and are not exhausted: the indices the
\* free list holds as long as remove was only called on live handles.
FreeSlots ==
    {i \in DOMAIN m_data :
        m_data[i] = NoObject /\ m_generations[i] < MAX_GENERATIONS}

\* C25: capacity() never decreases; remove never changes it, and
\* insert/emplace changes it only when the free list holds fewer than
\* minimum_available_handles entries at the start of the call.
C25_CapacityChangesOnlyWhenShort ==
    [][ ops' = ops + 1 =>
          /\ capacity' >= capacity
          /\ last'.op = "remove" => capacity' = capacity
          /\ (IsInsert(last') /\ ~misuse /\ capacity' # capacity) =>
                Cardinality(FreeSlots) < m_minimum_queue_handles ]_vars

\* C26: paged storage keeps addresses stable - the storage location (page
\* address, offset) that get(h) returns for a live handle h is the same
\* before and after every later insert/emplace call, including calls that
\* append a page or enlarge the page table.
C26_PagedAddressesStable ==
    [][ (ops' = ops + 1 /\ IsInsert(last')) =>
          \A h \in live : PagedGetOutcome(h)' = PagedGetOutcome(h) ]_vars

\* C26 witness: an insert has just appended the page that made the page
\* table grow, while a handle issued earlier still resolves to a slot of
\* the first page.
C26_Witness ==
    /\ script = "paged" /\ fault = "none"
    /\ IsInsert(last) /\ last.grew
    /\ m_pages.m_allocated_page_count > SLOTMAP_RESIZE_MULTIPLIER
    /\ \E h \in live :
          /\ h # last.h
          /\ PageOf(m_pages, h.m_index) = 0
          /\ PagedGetOutcome(h).ret = ItemPtr(m_pages, h.m_index)

\* C27: constructing a SlotMap with initial capacity 0, or with
\* minimum_available_handles greater than or equal to the initial capacity,
\* is rejected by an assertion before any handle can be issued.
C27_BadConfigRejected ==
    (script = "ctor" /\
     ~CtorAsserts(initialCapacity, m_minimum_queue_handles)) =>
        /\ fault = "assert"
        /\ ops = 0
        /\ issued = {}

\* C28: FreeList::pop on a queue that holds no entries is trapped by the
\* assertion and never returns a value; conversely pop never traps while at
\* least one pushed entry has not been popped yet.
C28_PopTrapsExactlyWhenEmpty ==
    [][ (ops' = ops + 1 /\ last'.op = "pop") =>
          /\ Queued <= 0 => (fault' = "assert" /\ popped' = popped)
          /\ Queued > 0 => fault' = "none" ]_vars

\* C29: generation sequence - the handle issued at the k-th issue of a slot
\* index carries generation k - 1; every remove of a live handle raises the
\* slot's stored generation by exactly 1 and no other operation changes a
\* generation, so a slot index is issued at most MAX_GENERATIONS times and a
\* slot becomes exhausted on the remove that finds generation
\* MAX_GENERATIONS - 1.
C29_GenerationSequence ==
    [][ ops' = ops + 1 =>
          /\ (IsInsert(last') /\ fault' = "none") =>
                /\ last'.h.m_generation =
                      Cardinality({x \in issued : x.m_index = last'.ret})
                /\ last'.h.m_generation < MAX_GENERATIONS
          /\ \A i \in DOMAIN m_generations :
                m_generations'[i] =
                    IF last'.op = "remove" /\ last'.h \in live /\
                       last'.h.m_index = i
                    THEN m_generations[i] + 1
                    ELSE m_generations[i]
          /\ \A i \in ExhaustedSlots' \ ExhaustedSlots :
                /\ last'.op = "remove" /\ last'.h.m_index = i
                /\ m_generations[i] = MAX_GENERATIONS - 1 ]_vars

\* C30: in the paged SlotMap every growth appends exactly one page -
\* capacity() rises by exactly itemsInPage() per growth, always equals
\* pageCount() * itemsInPage(), and the indices pushed for the growth are
\* exactly [(pageCount - 1) * P, pageCount * P).
C30_GrowthAppendsOnePage ==
    [][ ops' = ops + 1 =>
          LET P == itemsInPage(m_pages) IN
          /\ itemsInPage(m_pages') = P
          /\ PagedCapacity' = pageCount(m_pages') * P
          /\ PagedCapacity' # PagedCapacity =>
                /\ IsInsert(last') /\ last'.grew
                /\ FreeList_size(m_freelist) < m_minimum_queue_handles
                /\ pageCount(m_pages') = pageCount(m_pages) + 1
                /\ PagedCapacity' = PagedCapacity + P
                /\ pushed' = pushed \o
                       Range((pageCount(m_pages') - 1) * P,
                             pageCount(m_pages') * P)
          /\ PagedCapacity' = PagedCapacity =>
                /\ pushed' = pushed
                /\ ~last'.grew ]_vars

\* C30 witness: a paged map that has grown twice, the second growth in the
\* call just made: three pages, capacity 3 * P, indices P .. 3 * P - 1
\* pushed.
C30_Witness ==
    /\ script = "paged" /\ fault = "none"
    /\ IsInsert(last) /\ last.grew
    /\ pageCount(m_pages) = 3
    /\ PagedCapacity = 3 * initialCapacity
    /\ pushed = Range(initialCapacity, 3 * initialCapacity)

\* C31: a growth step changes nothing that already exists - every existing
\* slot's generation, every live object's value and the order of the indices
\* already in the free list are unchanged; it adds exactly the new indices
\* [old capacity, new capacity), each with generation 0, to the back of the
\* free list in ascending order.
C31_GrowthKeepsWhatExists ==
    [][ (ops' = ops + 1 /\ IsInsert(last') /\ last'.grew /\
         last'.at # "resize") =>
          /\ \A i \in DOMAIN m_generations :
                ResizedGenerations[i] = m_generations[i]
          /\ \A i \in DOMAIN ResizedGenerations \ DOMAIN m_generations :
                ResizedGenerations[i] = 0
          /\ \A h \in live : ResizedData[h.m_index] = m_data[h.m_index]
          /\ FreeListContent(ResizedFreeList) =
                FreeListContent(m_freelist) \o
                    Range(m_handle_count, ResizedCount) ]_vars

\* The values pushed and not yet popped, oldest first.
QueuedValues == SubSeq(pushed, Len(popped) + 1, Len(pushed))

LiveSlots == {h.m_index : h \in live}

\* How many times index i is queued in the free list.
TimesQueued(i) ==
    Cardinality({k \in 1..Len(FreeListContent(m_freelist)) :
                    FreeListContent(m_freelist)[k] = i})

\* C33: slot partition - in every state reached by insert/emplace and remove
\* of live handles, each index in [0, capacity()) is in exactly one of three
\* sets: queued in the free list exactly once, live, or exhausted; and
\* free-list size + dead-slot count never exceeds capacity().
C33_SlotPartition ==
    (fault = "none" /\ ~misuse) =>
        /\ \A i \in 0..(capacity - 1) :
              /\ TimesQueued(i) <= 1
              /\ Cardinality({b \in {"queued", "live", "exhausted"} :
                    \/ b = "queued" /\ TimesQueued(i) = 1
                    \/ b = "live" /\ i \in LiveSlots
                    \/ b = "exhausted" /\ i \in ExhaustedSlots}) = 1
        /\ FreeList_size(m_freelist) + m_dead_indices <= capacity

\* C34: FreeList structure - in every reachable state 0 <= head < capacity
\* and 0 <= tail <= capacity, the number of entries pushed and not yet
\* popped never exceeds the buffer capacity, and push never writes over an
\* entry that has not been popped: every such entry is still in the buffer.
C34_FreeListStructure ==
    (script = "freelist" /\ fault = "none") =>
        /\ m_freelist.m_head \in 0..(m_freelist.m_capacity - 1)
        /\ m_freelist.m_tail \in 0..m_freelist.m_capacity
        /\ Queued <= m_freelist.m_capacity
        /\ \A k \in 1..Len(QueuedValues) :
              \E c \in 1..m_freelist.m_capacity :
                  m_freelist.m_buffer[c] = QueuedValues[k]

\* C35: generation bound - in every reachable state each slot's stored
\* generation counter lies in [0, MAX_GENERATIONS], every slot queued in the
\* free list or live has a generation below MAX_GENERATIONS, and the
\* dead-slot counter equals the number of slots whose generation is exactly
\* MAX_GENERATIONS.
C35_GenerationBound ==
    fault = "none" =>
        /\ \A i \in DOMAIN m_generations :
              m_generations[i] \in 0..MAX_GENERATIONS
        /\ \A i \in DOMAIN m_generations :
              (i \in LiveSlots \/ TimesQueued(i) >= 1) =>
                  m_generations[i] < MAX_GENERATIONS
        /\ m_dead_indices =
              Cardinality({i \in DOMAIN m_generations :
                              m_generations[i] = MAX_GENERATIONS})

\* Every structurally valid handle value: what isValid() accepts, whichever
\* map issued it.
ValidHandles ==
    {Handle(i, g) : i \in 0..(MAX_HANDLES - 1), g \in 0..(MAX_GENERATIONS - 1)}

\* C36: get hands out only constructed objects - for every structurally
\* valid handle value h (any index, any generation below MAX_GENERATIONS,
\* also one issued by another map), if get(h) is non-null then slot h.index
\* is live: it holds an object and a handle issued by this map refers to it.
C36_GetOnlyConstructed ==
    fault = "none" =>
        \A h \in ValidHandles :
            GetRet(h) # Nullptr =>
                /\ h.m_index \in LiveSlots
                /\ m_data[h.m_index] # NoObject

\* The condition of the '#ifndef NDEBUG' check at the top of get and
\* remove, whichever build is running.
FailsValidityCheck(h) == ~isValid(h) \/ h.m_index > m_handle_count

\* C37: the results of get and remove do not depend on the build mode - a
\* handle the '#ifndef NDEBUG' check turns down (get returns nullptr, remove
\* returns without a change) gets the same result in the build without the
\* check; every other handle runs the same statements in both builds.
C37_BuildModeIndependent ==
    [][ (ops' = ops + 1 /\ last'.op \in {"get", "remove"} /\
         FailsValidityCheck(last'.h)) =>
          /\ fault' = "none"
          /\ last'.ret = Nullptr
          /\ last'.dtors = 0
          /\ UNCHANGED mapVars ]_vars

\* C38: over a map's whole life the destructor calls the map makes equal
\* the objects it constructed - every object is destroyed exactly once, by
\* remove or, if still live, when the SlotMap is destroyed: the destructor
\* of the map runs ~T() once per live object.
C38_EveryObjectDestroyed ==
    (last.op = "destroy" /\ ~misuse) =>
        /\ last.dtors = Cardinality(live)
        /\ Cardinality(removed) + last.dtors = Cardinality(issued)

\* C39: move assignment releases what the destination owned - after
\* 'b = std::move(a)' every buffer b owned before has been freed, every
\* buffer a owned is held by b alone, and destroying both objects afterwards
\* frees each buffer exactly once (none lost, none freed twice).
C39_MoveAssignReleases ==
    [][ /\ (ops' = ops + 1 /\ last'.op = "move_assign") =>
              /\ Destination(mallocs') \subseteq mallocs'.freed
              /\ mallocs'.held = mallocs.held
              /\ mallocs'.lost = mallocs.lost
        /\ (ops' = ops + 1 /\ last'.op = "destroy") =>
              /\ mallocs.held \cap mallocs.freed = {}
              /\ mallocs'.freed = 1..mallocs'.made
              /\ mallocs'.lost = {} ]_vars

\* C40: PageArray::operator[] maps an index to page = index >> log2 of the
\* page size and offset = index & (page size - 1); for every index below
\* pageCount() * itemsInPage() the page is below pageCount() and the offset
\* below itemsInPage(), distinct indices have distinct (page, offset)
\* pairs, and a call with an index at or above that bound trips the assert
\* on the page.
C40_IndexMapping ==
    /\ \A i \in 0..(PagedCapacity - 1) :
          /\ PageOf(m_pages, i) = i \div itemsInPage(m_pages)
          /\ ItemOf(m_pages, i) = i % itemsInPage(m_pages)
          /\ PageOf(m_pages, i) < pageCount(m_pages)
          /\ ItemOf(m_pages, i) < itemsInPage(m_pages)
          /\ \A j \in 0..(PagedCapacity - 1) :
                i # j => <<PageOf(m_pages, i), ItemOf(m_pages, i)>> #
                         <<PageOf(m_pages, j), ItemOf(m_pages, j)>>
    /\ (last.op = "at" /\ last.v < PagedCapacity) =>
          /\ fault = "none"
          /\ last.ret = <<m_pages.m_item_pages[PageOf(m_pages, last.v) + 1],
                          ItemOf(m_pages, last.v)>>
    /\ (last.op = "at" /\ last.v >= PagedCapacity) => fault = "assert"

====
